---- MODULE Spec2Model ----
(***************************************************************************)
(* Model of the Lambda defender scripts: the three scanner variants        *)
(* (test.py, defend3.py, defend4.py) and the two layer publishers          *)
(* (publish.py, publish1.py).  One scan is main(): for each region         *)
(* of LAYER_ARNS, list the functions page by page and, for each function,  *)
(* skip it when protected, else assess its risk and deploy or skip.        *)
(*                                                                         *)
(* Python values are modelled as follows.  A dict is a function whose      *)
(* domain is the set of keys present (a missing key is missing from the    *)
(* domain).  A list is a sequence.  An ARN is the sequence of its words,   *)
(* so that "'twistlock' in arn" is a search of the ARN.  Other strings are *)
(* TLA+ strings; StrLen gives the number of characters of each.            *)
(***************************************************************************)
EXTENDS Integers, Sequences, FiniteSets, TLC

(***************************************************************************)
(* Bounds of the model.                                                    *)
(***************************************************************************)
MaxScans == 2
PageSize == 1
MaxRegions == 3

(***************************************************************************)
(* Configuration constants of the scripts.                                 *)
(***************************************************************************)
MAX_LAYERS == 5
MIN_MEMORY_MB == 256
TIMEOUT_BUFFER_SEC == 30
MAX_TIMEOUT_SEC == 900
THROTTLE_LOOKBACK_HRS == 24
MAX_ENV_VAR_SIZE_BYTES == 4096
DeployLayerLimit == 5

SUPPORTED_RUNTIMES ==
    {"python3.8", "python3.9", "python3.10", "python3.11", "python3.12",
     "nodejs16.x", "nodejs18.x", "nodejs20.x"}

Variants == {"test", "defend3", "defend4"}

DefenderArn(region) == <<"arn", "aws", "lambda", region, "layer", "twistlock", "defender", "1">>

\* LAYER_ARNS of each script, as the ordered list of its keys.
Regions(v) == IF v = "defend4" THEN <<"us-east-1">> ELSE <<"us-east-1", "us-west-2">>

LAYER_ARNS(v) == [r \in {Regions(v)[i] : i \in 1..Len(Regions(v))} |-> DefenderArn(r)]

(***************************************************************************)
(* Strings and their lengths.                                              *)
(***************************************************************************)
WrapperPath == "/opt/twistlock/wrapper.sh"

\* len(str(s)): the number of characters of each string the model uses.
\* "blob<n>" stands for a value of n characters.
StrLen(s) ==
    CASE s = "TW_POLICY" -> 9
      [] s = "AWS_LAMBDA_EXEC_WRAPPER" -> 23
      [] s = WrapperPath -> 25
      [] s = "/old/wrapper" -> 12
      [] s = "fa" -> 2
      [] s = "fb" -> 2
      [] s = "fc" -> 2
      [] s = "STAGE" -> 5
      [] s = "prod" -> 4
      [] s = "old" -> 3
      [] s = "BLOB" -> 4
      [] s = "blob3997" -> 3997
      [] s = "blob4032" -> 4032
      [] s = "blob4033" -> 4033

\* Python's "word in arn" on an ARN.
Contains(arn, word) == \E i \in 1..Len(arn) : arn[i] = word

\* dict.get(key, default)
Get(d, key, default) == IF key \in DOMAIN d THEN d[key] ELSE default

EmptyDict == [k \in {} |-> 0]

\* A value that is there, as opposed to <<>> for none.
Some(value) == <<value>>

\* function_config.get('Environment', {}).get('Variables', {})
EnvVars(function_config) ==
    Get(Get(function_config, "Environment", EmptyDict), "Variables", EmptyDict)

RECURSIVE SumLen(_, _)
SumLen(env_vars, keys) ==
    IF keys = {} THEN 0
    ELSE LET k == CHOOSE x \in keys : TRUE
         IN  StrLen(k) + StrLen(env_vars[k]) + SumLen(env_vars, keys \ {k})

calculate_env_size(env_vars) == SumLen(env_vars, DOMAIN env_vars)

(***************************************************************************)
(* Protection Detector (identical in the three scripts).                   *)
(***************************************************************************)
\* is_protected looking for the capitalised vendor names and for the marker
\* one level up, in Environment instead of Environment.Variables
is_protected_misplaced(function_config) ==
    LET layers == Get(function_config, "Layers", <<>>)
        env    == Get(function_config, "Environment", EmptyDict)
    IN  \/ \E i \in 1..Len(layers) :
              Contains(layers[i].Arn, "Twistlock") \/ Contains(layers[i].Arn, "Prisma")
        \/ "TW_POLICY" \in DOMAIN env

is_protected(function_config) ==
    LET layers == Get(function_config, "Layers", <<>>)
        env    == EnvVars(function_config)
    IN  \/ \E i \in 1..Len(layers) :
              Contains(layers[i].Arn, "twistlock") \/ Contains(layers[i].Arn, "prisma")
        \/ "TW_POLICY" \in DOMAIN env

(***************************************************************************)
(* Remote reads made while a function is assessed.  A response is          *)
(* [ok |-> FALSE] when the call raises, else it carries the payload.       *)
(***************************************************************************)
PyNone == "<None>"

\* get_metric_sum of defend3.py: the Sum of the first datapoint, 0 when there
\* is none or when the query raised.
get_metric_sum(response) ==
    IF response.ok
    THEN IF response.Datapoints # <<>> THEN response.Datapoints[1] ELSE 0
    ELSE 0

\* get_max_concurrency_usage of defend3.py
get_max_concurrency_usage(response) ==
    IF response.ok
    THEN IF response.Datapoints # <<>> THEN response.Datapoints[1] ELSE 0
    ELSE 0

\* check_throttling tripping on a sum of 0 as well
check_throttling_at_zero(response) ==
    IF response.ok
    THEN response.Datapoints # <<>> /\ response.Datapoints[1] >= 0
    ELSE FALSE

\* check_throttling of defend4.py
check_throttling(response) ==
    IF response.ok
    THEN response.Datapoints # <<>> /\ response.Datapoints[1] > 0
    ELSE FALSE

(***************************************************************************)
(* Risk Assessors.  A verdict is the returned pair (safe, reason) together *)
(* with what the evaluation did: the predicates it evaluated, in order,    *)
(* the remote calls it made, and the advisories it logged.                 *)
(***************************************************************************)
\* A remote read and what it answered.
Call(api, response) == [api |-> api, response |-> response]

Verdict(safe, kind, args, evaluated, calls, advisories) ==
    [safe |-> safe, reason |-> [kind |-> kind, args |-> args],
     evaluated |-> evaluated, calls |-> calls, advisories |-> advisories]

IsImage(function_config) == Get(function_config, "PackageType", PyNone) = "Image"

IsArm(function_config) ==
    LET architectures == Get(function_config, "Architectures", <<"x86_64">>)
    IN  \E i \in 1..Len(architectures) : architectures[i] = "arm64"

RuntimeOf(function_config) == Get(function_config, "Runtime", "")

MemoryOf(function_config) == Get(function_config, "MemorySize", 128)

\* The memory floor tested with <= in place of <
LowMemoryInclusive(function_config) == MemoryOf(function_config) <= MIN_MEMORY_MB

LowMemory(function_config) == MemoryOf(function_config) < MIN_MEMORY_MB

TimeoutOf(function_config) == Get(function_config, "Timeout", 3)

\* The timeout test with >= in place of >
LongTimeoutInclusive(function_config) ==
    TimeoutOf(function_config) >= (MAX_TIMEOUT_SEC - TIMEOUT_BUFFER_SEC)

LongTimeout(function_config) ==
    TimeoutOf(function_config) > (MAX_TIMEOUT_SEC - TIMEOUT_BUFFER_SEC)

LayerCount(function_config) == Len(Get(function_config, "Layers", <<>>))

\* assess_risk of test.py
assess_risk(function_config) ==
    IF IsImage(function_config)
    THEN Verdict(FALSE, "ContainerImage", <<>>, <<"package">>, <<>>, <<>>)
    ELSE IF IsArm(function_config)
    THEN Verdict(FALSE, "Arm64", <<>>, <<"package", "architecture">>, <<>>, <<>>)
    ELSE IF RuntimeOf(function_config) \notin SUPPORTED_RUNTIMES
    THEN Verdict(FALSE, "UnsupportedRuntime", <<RuntimeOf(function_config)>>,
                 <<"package", "architecture", "runtime">>, <<>>, <<>>)
    ELSE IF LowMemory(function_config)
    THEN Verdict(FALSE, "LowMemory", <<MemoryOf(function_config), MIN_MEMORY_MB>>,
                 <<"package", "architecture", "runtime", "memory">>, <<>>, <<>>)
    ELSE IF LongTimeout(function_config)
    THEN Verdict(FALSE, "Timeout", <<TimeoutOf(function_config), MAX_TIMEOUT_SEC>>,
                 <<"package", "architecture", "runtime", "memory", "timeout">>, <<>>, <<>>)
    ELSE IF LayerCount(function_config) >= MAX_LAYERS
    THEN Verdict(FALSE, "MaxLayers", <<LayerCount(function_config), MAX_LAYERS>>,
                 <<"package", "architecture", "runtime", "memory", "timeout", "layers">>,
                 <<>>, <<>>)
    ELSE Verdict(TRUE, "Safe", <<>>,
                 <<"package", "architecture", "runtime", "memory", "timeout", "layers">>,
                 <<>>, <<>>)

CONCURRENCY_BUFFER_PCT == 80

StaticChecks == <<"package", "architecture", "runtime", "memory", "timeout">>

\* The provisioned-concurrency lookup of assess_risk_deep: a failed lookup is
\* swallowed and read as "none".
HasProvisioned(pcResponse) ==
    IF pcResponse.ok THEN pcResponse.ProvisionedConcurrencyConfigs # <<>> ELSE FALSE

\* "if reserved:" of assess_risk_deep: a limit is set and is not 0.
ReservedSet(concResponse) ==
    IF concResponse.ok
    THEN concResponse.Reserved # <<>> /\ concResponse.Reserved[1] # 0
    ELSE FALSE

\* used > (reserved * CONCURRENCY_BUFFER), with the buffer 0.80 as 80/100
Saturated(used, reserved) == 100 * used > CONCURRENCY_BUFFER_PCT * reserved

\* assess_risk_deep of defend3.py.  resp holds the responses of the remote
\* reads it may make: pc, throttles, conc, used.
assess_risk_deep(function_config, resp) ==
    LET throttles == get_metric_sum(resp.throttles)
        used      == get_max_concurrency_usage(resp.used)
        pcCall    == <<Call("list_provisioned_concurrency_configs", resp.pc)>>
        thCall    == pcCall \o <<Call("get_metric_statistics:Throttles", resp.throttles)>>
        rcCall    == thCall \o <<Call("get_function_concurrency", resp.conc)>>
        usCall    == rcCall \o <<Call("get_metric_statistics:ConcurrentExecutions", resp.used)>>
    IN
    IF IsImage(function_config)
    THEN Verdict(FALSE, "ContainerImage", <<>>, <<"package">>, <<>>, <<>>)
    ELSE IF IsArm(function_config)
    THEN Verdict(FALSE, "Arm64", <<>>, <<"package", "architecture">>, <<>>, <<>>)
    ELSE IF RuntimeOf(function_config) \notin SUPPORTED_RUNTIMES
    THEN Verdict(FALSE, "UnsupportedRuntime", <<RuntimeOf(function_config)>>,
                 <<"package", "architecture", "runtime">>, <<>>, <<>>)
    ELSE IF LowMemory(function_config)
    THEN Verdict(FALSE, "LowMemory", <<MemoryOf(function_config)>>,
                 <<"package", "architecture", "runtime", "memory">>, <<>>, <<>>)
    ELSE IF LongTimeout(function_config)
    THEN Verdict(FALSE, "Timeout", <<TimeoutOf(function_config)>>, StaticChecks, <<>>, <<>>)
    ELSE IF LayerCount(function_config) >= MAX_LAYERS
    THEN Verdict(FALSE, "MaxLayers", <<>>, StaticChecks \o <<"layers">>, <<>>, <<>>)
    ELSE IF HasProvisioned(resp.pc)
    THEN Verdict(FALSE, "ProvisionedConcurrency", <<>>,
                 StaticChecks \o <<"layers", "provisioned">>, pcCall, <<>>)
    ELSE IF throttles > 0
    THEN Verdict(FALSE, "Throttles", <<throttles, THROTTLE_LOOKBACK_HRS>>,
                 StaticChecks \o <<"layers", "provisioned", "throttles">>, thCall, <<>>)
    ELSE IF ReservedSet(resp.conc) /\ Saturated(used, resp.conc.Reserved[1])
    THEN Verdict(FALSE, "HighConcurrency", <<used, resp.conc.Reserved[1]>>,
                 StaticChecks \o <<"layers", "provisioned", "throttles", "concurrency">>,
                 usCall, <<>>)
    ELSE Verdict(TRUE, "Safe", <<>>,
                 StaticChecks \o <<"layers", "provisioned", "throttles", "concurrency">>,
                 IF ReservedSet(resp.conc) THEN usCall ELSE rcCall, <<>>)

\* new_vars_size of assess_risk_deep_dive
new_vars_size(func_name) ==
    StrLen("TW_POLICY") + StrLen(func_name)
        + StrLen("AWS_LAMBDA_EXEC_WRAPPER") + StrLen(WrapperPath)

\* total_size of assess_risk_deep_dive
total_size(function_config) ==
    calculate_env_size(EnvVars(function_config)) + new_vars_size(function_config.FunctionName)

\* The ceiling test with > in place of >=
EnvTooFullStrict(function_config) == total_size(function_config) > MAX_ENV_VAR_SIZE_BYTES

EnvTooFull(function_config) == total_size(function_config) >= MAX_ENV_VAR_SIZE_BYTES

\* vpc_config.get('SubnetIds') is truthy
InVpc(function_config) ==
    Get(Get(function_config, "VpcConfig", EmptyDict), "SubnetIds", <<>>) # <<>>

\* function_config.get('SnapStart', {}).get('ApplyOn') != 'None'
SnapStartCheck(function_config) ==
    Get(Get(function_config, "SnapStart", EmptyDict), "ApplyOn", PyNone) # "None"

\* assess_risk_deep_dive with the throttling history looked up first, before
\* the configuration checks
assess_risk_deep_dive_metric_first(function_config, resp) ==
    LET vpcLog == IF InVpc(function_config) THEN <<"VPC CHECK">> ELSE <<>>
        thCall == <<Call("get_metric_statistics:Throttles", resp.throttles)>>
    IN
    IF check_throttling(resp.throttles)
    THEN Verdict(FALSE, "Throttles", <<>>, <<"throttles">>, thCall, <<>>)
    ELSE IF IsImage(function_config)
    THEN Verdict(FALSE, "ContainerImage", <<>>, <<"throttles", "package">>, thCall, <<>>)
    ELSE IF IsArm(function_config)
    THEN Verdict(FALSE, "Arm64", <<>>, <<"throttles", "package", "architecture">>, thCall, <<>>)
    ELSE IF Get(function_config, "Runtime", PyNone) \notin SUPPORTED_RUNTIMES
    THEN Verdict(FALSE, "UnsupportedRuntime", <<>>,
                 <<"throttles", "package", "architecture", "runtime">>, thCall, <<>>)
    ELSE IF LowMemory(function_config)
    THEN Verdict(FALSE, "LowMemory", <<MIN_MEMORY_MB>>,
                 <<"throttles", "package", "architecture", "runtime", "memory">>, thCall, <<>>)
    ELSE IF LongTimeout(function_config)
    THEN Verdict(FALSE, "Timeout", <<>>, <<"throttles">> \o StaticChecks, thCall, <<>>)
    ELSE IF EnvTooFull(function_config)
    THEN Verdict(FALSE, "EnvVarsFull", <<total_size(function_config), MAX_ENV_VAR_SIZE_BYTES>>,
                 <<"throttles">> \o StaticChecks \o <<"envsize">>, thCall, <<>>)
    ELSE IF SnapStartCheck(function_config)
    THEN Verdict(FALSE, "SnapStart", <<>>,
                 <<"throttles">> \o StaticChecks \o <<"envsize", "vpc", "snapstart">>,
                 thCall, vpcLog)
    ELSE Verdict(TRUE, "Safe", <<>>,
                 <<"throttles">> \o StaticChecks \o <<"envsize", "vpc", "snapstart">>,
                 thCall, vpcLog)

\* assess_risk_deep_dive of defend4.py.  resp.throttles is the response of
\* the one remote read it may make.
assess_risk_deep_dive(function_config, resp) ==
    LET vpcLog == IF InVpc(function_config) THEN <<"VPC CHECK">> ELSE <<>>
        thCall == <<Call("get_metric_statistics:Throttles", resp.throttles)>>
    IN
    IF IsImage(function_config)
    THEN Verdict(FALSE, "ContainerImage", <<>>, <<"package">>, <<>>, <<>>)
    ELSE IF IsArm(function_config)
    THEN Verdict(FALSE, "Arm64", <<>>, <<"package", "architecture">>, <<>>, <<>>)
    ELSE IF Get(function_config, "Runtime", PyNone) \notin SUPPORTED_RUNTIMES
    THEN Verdict(FALSE, "UnsupportedRuntime", <<>>,
                 <<"package", "architecture", "runtime">>, <<>>, <<>>)
    ELSE IF LowMemory(function_config)
    THEN Verdict(FALSE, "LowMemory", <<MIN_MEMORY_MB>>,
                 <<"package", "architecture", "runtime", "memory">>, <<>>, <<>>)
    ELSE IF LongTimeout(function_config)
    THEN Verdict(FALSE, "Timeout", <<>>, StaticChecks, <<>>, <<>>)
    ELSE IF EnvTooFull(function_config)
    THEN Verdict(FALSE, "EnvVarsFull", <<total_size(function_config), MAX_ENV_VAR_SIZE_BYTES>>,
                 StaticChecks \o <<"envsize">>, <<>>, <<>>)
    ELSE IF SnapStartCheck(function_config)
    THEN Verdict(FALSE, "SnapStart", <<>>,
                 StaticChecks \o <<"envsize", "vpc", "snapstart">>, <<>>, vpcLog)
    ELSE IF check_throttling(resp.throttles)
    THEN Verdict(FALSE, "Throttles", <<>>,
                 StaticChecks \o <<"envsize", "vpc", "snapstart", "throttles">>,
                 thCall, vpcLog)
    ELSE Verdict(TRUE, "Safe", <<>>,
                 StaticChecks \o <<"envsize", "vpc", "snapstart", "throttles">>,
                 thCall, vpcLog)

(***************************************************************************)
(* Mutator: the request deploy_defender builds.                            *)
(***************************************************************************)
\* current_layers + [layer_arn]
new_layers(function_config, layer_arn) ==
    LET layers == Get(function_config, "Layers", <<>>)
    IN  [i \in 1..Len(layers) |-> layers[i].Arn] \o <<layer_arn>>

\* current_env.copy() with the two defender variables set
new_env(function_config) ==
    LET current_env == EnvVars(function_config)
    IN  [k \in DOMAIN current_env \cup {"TW_POLICY", "AWS_LAMBDA_EXEC_WRAPPER"} |->
            IF k = "TW_POLICY" THEN function_config.FunctionName
            ELSE IF k = "AWS_LAMBDA_EXEC_WRAPPER" THEN WrapperPath
            ELSE current_env[k]]

\* The arguments of update_function_configuration
UpdateRequest(function_config, layer_arn) ==
    [FunctionName |-> function_config.FunctionName,
     Layers       |-> new_layers(function_config, layer_arn),
     Variables    |-> new_env(function_config)]

\* The layer limit of deploy_defender tested with > in place of >=
DeploySkipsLayersStrict(v, function_config) ==
    v = "defend4" /\ LayerCount(function_config) > DeployLayerLimit

\* defend4.py's deploy_defender returns early, without any update, at 5 layers
DeploySkipsLayers(v, function_config) ==
    v = "defend4" /\ LayerCount(function_config) >= DeployLayerLimit

\* The remote configuration after a successful update_function_configuration
Updated(function_config, request) ==
    [k \in DOMAIN function_config \cup {"Layers", "Environment"} |->
        IF k = "Layers" THEN [i \in 1..Len(request.Layers) |-> [Arn |-> request.Layers[i]]]
        ELSE IF k = "Environment" THEN [Variables |-> request.Variables]
        ELSE function_config[k]]

(***************************************************************************)
(* Inputs: the function configurations the remote service may hold.  Each  *)
(* field is drawn from a few values around the thresholds of the code; an  *)
(* option is <<>> when the key is missing and <<value>> when it is set.    *)
(***************************************************************************)
LibVersions == <<"v1", "v2", "v3", "v4", "v5", "v6">>

PlainArn(n) == <<"arn", "aws", "lambda", "layer", "lib", LibVersions[n]>>

PrismaArn == <<"arn", "aws", "lambda", "layer", "prisma", "agent">>

PlainLayers(n) == [i \in 1..n |-> [Arn |-> PlainArn(i)]]

EnvSmall == [Variables |-> ("STAGE" :> "prod")]

EnvWrapper == [Variables |-> ("STAGE" :> "prod") @@ ("AWS_LAMBDA_EXEC_WRAPPER" :> "/old/wrapper")]

EnvMarker == [Variables |-> ("TW_POLICY" :> "old")]

EnvNearFull == [Variables |-> ("BLOB" :> "blob4032")]

EnvFull == [Variables |-> ("BLOB" :> "blob4033")]

EnvWrapperBlob == [Variables |-> ("BLOB" :> "blob3997") @@ ("AWS_LAMBDA_EXEC_WRAPPER" :> "/old/wrapper")]

VpcAttached == [SubnetIds |-> <<"subnet-1">>, SecurityGroupIds |-> <<"sg-1">>]

PackageOpts == {<<>>, <<"Zip">>, <<"Image">>}

ArchOpts == {<<>>, << <<"x86_64">> >>, << <<"arm64">> >>}

RuntimeOpts == {<<>>, <<"python3.12">>, <<"java17">>}

MemoryOpts == {<<>>, <<255>>, <<256>>, <<512>>}

TimeoutOpts == {<<>>, <<60>>, <<869>>, <<870>>, <<871>>}

LayersOpts ==
    {<<>>, << <<>> >>, <<PlainLayers(2)>>, <<PlainLayers(4)>>, <<PlainLayers(5)>>,
     << <<[Arn |-> PrismaArn]>> >>}

EnvOpts ==
    {<<>>, <<EnvSmall>>, <<EnvWrapper>>, <<EnvMarker>>, <<EnvNearFull>>, <<EnvFull>>,
     <<EnvWrapperBlob>>}

VpcOpts == {<<>>, <<VpcAttached>>}

SnapStartOpts == {<<>>, <<[ApplyOn |-> "None"]>>, <<[ApplyOn |-> "PublishedVersions"]>>}

FieldKeys ==
    <<"PackageType", "Architectures", "Runtime", "MemorySize", "Timeout", "Layers",
      "Environment", "VpcConfig", "SnapStart">>

\* The options of an ordinary function that every variant finds safe.
BaseOptions ==
    <<<<"Zip">>, << <<"x86_64">> >>, <<"python3.12">>, <<512>>, <<60>>, << <<>> >>,
      <<EnvSmall>>, <<>>, <<[ApplyOn |-> "None"]>>>>

OptionsOf(i) ==
    CASE i = 1 -> PackageOpts
      [] i = 2 -> ArchOpts
      [] i = 3 -> RuntimeOpts
      [] i = 4 -> MemoryOpts
      [] i = 5 -> TimeoutOpts
      [] i = 6 -> LayersOpts
      [] i = 7 -> EnvOpts
      [] i = 8 -> VpcOpts
      [] i = 9 -> SnapStartOpts

FieldIndexes == 1..Len(FieldKeys)

\* The base with one field changed, and with two fields changed.
OneOff == UNION {{[BaseOptions EXCEPT ![i] = o] : o \in OptionsOf(i)} : i \in FieldIndexes}

TwoOff == UNION {UNION {{[x EXCEPT ![j] = q] : q \in OptionsOf(j)} : j \in FieldIndexes} : x \in OneOff}

RECURSIVE MkFields(_, _)
MkFields(options, i) ==
    IF i = 0 THEN EmptyDict
    ELSE IF options[i] = <<>> THEN MkFields(options, i - 1)
    ELSE (FieldKeys[i] :> options[i][1]) @@ MkFields(options, i - 1)

\* The FunctionConfig named name with the given options.
MkConfig(name, options) ==
    ("FunctionName" :> name) @@ MkFields(options, Len(FieldKeys))

\* The configurations a scan meets: the base, changed in at most one field.
ScanConfigs(name) == {MkConfig(name, o) : o \in OneOff}

\* The configurations the assessors are tried on: changed in at most two.
ProbeConfigs(name) == {MkConfig(name, o) : o \in TwoOff}

\* Responses of the remote reads.
MetricResponses ==
    {[ok |-> FALSE, Datapoints |-> <<>>], [ok |-> TRUE, Datapoints |-> <<>>],
     [ok |-> TRUE, Datapoints |-> <<0>>], [ok |-> TRUE, Datapoints |-> <<1>>]}

UsageResponses ==
    {[ok |-> FALSE, Datapoints |-> <<>>], [ok |-> TRUE, Datapoints |-> <<8>>],
     [ok |-> TRUE, Datapoints |-> <<9>>]}

ConcurrencyResponses ==
    {[ok |-> FALSE, Reserved |-> <<>>], [ok |-> TRUE, Reserved |-> <<>>],
     [ok |-> TRUE, Reserved |-> <<10>>]}

\* list_provisioned_concurrency_configs on a function whose provisioned
\* concurrency configurations are pcs: the lookup answers or raises.
PcResponses(pcs) ==
    {[ok |-> FALSE, ProvisionedConcurrencyConfigs |-> <<>>],
     [ok |-> TRUE, ProvisionedConcurrencyConfigs |-> pcs]}

\* The responses a scan meets: the provisioned-concurrency lookup answers or
\* raises, the throttle sum is 0 or 1, and there is no reserved limit or a
\* limit of 10 with 9 in use.
ScanResponses(pcs) ==
    [pc : PcResponses(pcs),
     throttles : {r \in MetricResponses : r.Datapoints # <<>>},
     conc : {r \in ConcurrencyResponses : r.ok},
     used : {r \in UsageResponses : r.Datapoints = <<9>>}]

Responses(pcs) ==
    [pc : PcResponses(pcs), throttles : MetricResponses,
     conc : ConcurrencyResponses, used : UsageResponses]

\* Shapes of the metric and concurrency answers: get_metric_statistics may
\* return several datapoints for the window, in any order, and a reserved
\* limit may be 0.
ThrottleShapes ==
    MetricResponses \cup {[ok |-> TRUE, Datapoints |-> <<0, 2>>],
                          [ok |-> TRUE, Datapoints |-> <<2, 0>>]}

UsageShapes ==
    UsageResponses \cup {[ok |-> TRUE, Datapoints |-> <<>>],
                         [ok |-> TRUE, Datapoints |-> <<8, 9>>],
                         [ok |-> TRUE, Datapoints |-> <<9, 8>>]}

ConcurrencyShapes == ConcurrencyResponses \cup {[ok |-> TRUE, Reserved |-> <<0>>]}

ReadShapes(pcs) ==
    [pc : PcResponses(pcs), throttles : ThrottleShapes,
     conc : ConcurrencyShapes, used : UsageShapes]

(***************************************************************************)
(* Alias Auditor (defend3.py).  The response of list_aliases carries, for  *)
(* each alias, the answer get_function_configuration gives for its version.*)
(***************************************************************************)
VersionUnprotected == [ok |-> TRUE, config |-> MkConfig("v", BaseOptions)]

VersionProtected == [ok |-> TRUE, config |-> ("FunctionName" :> "v") @@ ("Environment" :> EnvMarker)]

VersionFails == [ok |-> FALSE, config |-> EmptyDict]

Alias(name, ver, lookup) == [Name |-> name, FunctionVersion |-> ver, lookup |-> lookup]

\* What list_aliases answers for each function of the scan.
AliasesOf(name) ==
    CASE name = "fa" -> [ok |-> TRUE,
                         Aliases |-> <<Alias("DEV", "$LATEST", VersionUnprotected),
                                       Alias("PROD", "5", VersionUnprotected),
                                       Alias("BLUE", "6", VersionProtected)>>]
      [] name = "fb" -> [ok |-> TRUE,
                         Aliases |-> <<Alias("STG", "4", VersionFails),
                                       Alias("PROD", "5", VersionUnprotected)>>]
      [] OTHER       -> [ok |-> FALSE, Aliases |-> <<>>]

RECURSIVE AuditFrom(_, _)
AuditFrom(aliases, i) ==
    IF i > Len(aliases) THEN <<>>
    ELSE IF aliases[i].FunctionVersion = "$LATEST" THEN AuditFrom(aliases, i + 1)
    ELSE IF ~aliases[i].lookup.ok THEN <<[kind |-> "Alias Check Failed", alias |-> aliases[i].Name]>>
    ELSE IF ~is_protected(aliases[i].lookup.config)
    THEN <<[kind |-> "ALIAS RISK", alias |-> aliases[i].Name]>> \o AuditFrom(aliases, i + 1)
    ELSE AuditFrom(aliases, i + 1)

\* The warnings check_aliases_and_versions logs.
check_aliases_and_versions(response) ==
    IF response.ok THEN AuditFrom(response.Aliases, 1)
    ELSE <<[kind |-> "Alias Check Failed", alias |-> ""]>>

\* The remote calls check_aliases_and_versions makes: the listing, then one
\* version lookup per alias that does not target $LATEST, up to the first
\* lookup that raises.
RECURSIVE AuditCallsFrom(_, _)
AuditCallsFrom(aliases, i) ==
    IF i > Len(aliases) THEN <<>>
    ELSE IF aliases[i].FunctionVersion = "$LATEST" THEN AuditCallsFrom(aliases, i + 1)
    ELSE IF ~aliases[i].lookup.ok
    THEN <<[api |-> "get_function_configuration", Qualifier |-> aliases[i].FunctionVersion]>>
    ELSE <<[api |-> "get_function_configuration", Qualifier |-> aliases[i].FunctionVersion]>>
             \o AuditCallsFrom(aliases, i + 1)

AuditCalls(response) ==
    <<[api |-> "list_aliases", Qualifier |-> ""]>>
        \o (IF response.ok THEN AuditCallsFrom(response.Aliases, 1) ELSE <<>>)

(***************************************************************************)
(* Region Scanner.                                                         *)
(***************************************************************************)
VARIABLES
    variant,      \* which script runs
    DRY_RUN,      \* its mode flag
    remote,       \* the remote service: function name -> configuration
    provisioned,  \* function name -> its provisioned-concurrency configurations
    pc,           \* "idle", "list" (paginator), "page" (loop over a page), "crashed"
    scans,        \* runs of main() started so far
    regionIdx,    \* position in LAYER_ARNS.keys()
    pageIdx,      \* next page of the paginator
    page,         \* the page being looped over: the listed configurations
    funcIdx,      \* position in the page
    last,         \* what the last loop iteration did (<<>> before the first)
    deployed,     \* every invocation of deploy_defender so far
    probe,        \* assessor under test: its input (<<>> in a scan)
    probed,       \* assessor under test: its verdict (<<>> until applied)
    script,       \* Layer Publisher: which script runs, "publish" or "publish1"
    credentials,  \* Layer Publisher: both credential variables are set
    bundle,       \* Layer Publisher: what the console answers to the download
    regions,      \* Layer Publisher: the regions handed to publish_to_aws
    stage,        \* Layer Publisher: "start", "auth", "download", "publish", "done", "exit"
    token,        \* Layer Publisher: <<>> until authentication returned one
    layer_content,\* Layer Publisher: <<>> until an archive entry was extracted
    regionAt,     \* Layer Publisher: position in regions
    attempts      \* Layer Publisher: the publish_layer_version calls made so far

pubVars ==
    <<script, credentials, bundle, regions, stage, token, layer_content, regionAt, attempts>>

vars ==
    <<variant, DRY_RUN, remote, provisioned, pc, scans, regionIdx, pageIdx, page, funcIdx,
      last, deployed, probe, probed, pubVars>>

\* The Layer Publisher is not running.
NoPublisher ==
    /\ script = "publish"
    /\ credentials = FALSE
    /\ bundle = [status |-> "error", zip |-> FALSE, namelist |-> <<>>]
    /\ regions = <<>>
    /\ stage = "done"
    /\ token = <<>>
    /\ layer_content = <<>>
    /\ regionAt = 1
    /\ attempts = <<>>

scanVars == <<variant, DRY_RUN, remote, provisioned, pc, scans, regionIdx, pageIdx, page,
              funcIdx, last, deployed>>

FunctionNames == {"fa", "fb", "fc"}

\* list_functions: the functions of each region, in listing order.
Functions(region) == IF region = "us-east-1" THEN <<"fa", "fb">> ELSE <<"fc">>

NumPages(region) == (Len(Functions(region)) + PageSize - 1) \div PageSize

PageOf(region, p) ==
    LET F    == Functions(region)
        from == (p - 1) * PageSize + 1
        to   == IF p * PageSize < Len(F) THEN p * PageSize ELSE Len(F)
    IN  SubSeq(F, from, to)

FbConfig ==
    MkConfig("fb", [BaseOptions EXCEPT ![6] = <<PlainLayers(2)>>, ![7] = <<EnvWrapper>>])

FcConfig == MkConfig("fc", [BaseOptions EXCEPT ![6] = << <<[Arn |-> DefenderArn("us-west-2")]>> >>])

\* The assessor each script calls, and the remote reads it can make.
Assess(v, function_config, resp) ==
    CASE v = "test"    -> assess_risk(function_config)
      [] v = "defend3" -> assess_risk_deep(function_config, resp)
      [] v = "defend4" -> assess_risk_deep_dive(function_config, resp)

NoRead == [ok |-> FALSE, Datapoints |-> <<>>]

ReadsOf(v, pcs) ==
    CASE v = "test"    -> {[pc |-> [ok |-> FALSE, ProvisionedConcurrencyConfigs |-> <<>>],
                            throttles |-> NoRead, conc |-> [ok |-> FALSE, Reserved |-> <<>>],
                            used |-> NoRead]}
      [] v = "defend3" -> ScanResponses(pcs)
      [] v = "defend4" -> {[pc |-> [ok |-> FALSE, ProvisionedConcurrencyConfigs |-> <<>>],
                            throttles |-> t, conc |-> [ok |-> FALSE, Reserved |-> <<>>],
                            used |-> NoRead] : t \in MetricResponses}

\* The verdicts the assessor can return for a function, over what the remote
\* reads may answer.
Verdicts(v, function_config, pcs) == {Assess(v, function_config, r) : r \in ReadsOf(v, pcs)}

\* The warnings of the alias audit, which only defend3.py runs.
AliasLog(v, name) == IF v = "defend3" THEN check_aliases_and_versions(AliasesOf(name)) ELSE <<>>

\* Decision without the status check
DecisionUnchecked(function_config, verdict) ==
    IF verdict.safe THEN "deploy" ELSE "skip"

\* The branch the loop body of process_region takes for a listed function.
Decision(function_config, verdict) ==
    IF is_protected(function_config) THEN "continue"
    ELSE IF verdict.safe THEN "deploy"
    ELSE "skip"

Region == Regions(variant)[regionIdx]

Current == page[funcIdx]

InLoop == pc = "page" /\ funcIdx <= Len(page)

\* The end of one loop iteration: the next function of the page, or back to
\* the paginator for the next page.
Advance ==
    /\ funcIdx' = funcIdx + 1
    /\ IF funcIdx = Len(page)
       THEN pc' = "list" /\ pageIdx' = pageIdx + 1
       ELSE pc' = pc /\ pageIdx' = pageIdx

\* The run of the script ends, by returning from main() ("idle") or by an
\* exception nothing catches ("crashed"); its local variables are gone.
Exit(how) ==
    /\ pc' = how
    /\ regionIdx' = 1
    /\ pageIdx' = 1
    /\ page' = <<>>
    /\ funcIdx' = 1

Iteration(function_config, outcome, verdict, aliasLog) ==
    <<[FunctionName |-> function_config.FunctionName, config |-> function_config,
       outcome |-> outcome, verdict |-> verdict, aliasLog |-> aliasLog]>>

Invocation(function_config, verdict, outcome, request) ==
    [config |-> function_config, safe |-> verdict.safe,
     protected |-> is_protected(remote[function_config.FunctionName]),
     outcome |-> outcome, request |-> request]

\* deploy_defender without its DRY_RUN test
AuditOnlyIgnored(flag) == FALSE

\* "if DRY_RUN:" of deploy_defender
AuditOnly(flag) == flag

\* test.py's dry-run log line reads function_config['MemorySize'] and
\* function_config['Timeout'] directly.
DryRunLogRaises(v, function_config) ==
    v = "test" /\ ~({"MemorySize", "Timeout"} \subseteq DOMAIN function_config)

Init ==
    /\ variant \in Variants
    /\ DRY_RUN \in BOOLEAN
    /\ remote \in {("fa" :> c) @@ ("fb" :> FbConfig) @@ ("fc" :> FcConfig) :
                      c \in ScanConfigs("fa")}
    /\ provisioned \in {("fa" :> p) @@ ("fb" :> <<>>) @@ ("fc" :> <<"pc-1">>) :
                           p \in {<<>>, <<"pc-1">>}}
    /\ pc = "idle"
    /\ scans = 0
    /\ regionIdx = 1
    /\ pageIdx = 1
    /\ page = <<>>
    /\ funcIdx = 1
    /\ last = <<>>
    /\ deployed = <<>>
    /\ probe = <<>>
    /\ probed = <<>>
    /\ NoPublisher

\* main(): a run of the script starts with the first region.
Main ==
    /\ pc \in {"idle", "crashed"}
    /\ scans < MaxScans
    /\ scans' = scans + 1
    /\ regionIdx' = 1
    /\ pageIdx' = 1
    /\ pc' = "list"
    /\ page' = <<>>
    /\ funcIdx' = 1
    /\ UNCHANGED <<variant, DRY_RUN, remote, provisioned, last, deployed, probe, probed, pubVars>>

\* The paginator returns the next page: the configurations as they are now.
FetchPage ==
    /\ pc = "list"
    /\ pageIdx <= NumPages(Region)
    /\ page' = [i \in 1..Len(PageOf(Region, pageIdx)) |-> remote[PageOf(Region, pageIdx)[i]]]
    /\ funcIdx' = 1
    /\ pc' = "page"
    /\ UNCHANGED <<variant, DRY_RUN, remote, provisioned, scans, regionIdx, pageIdx, last,
                   deployed, probe, probed, pubVars>>

\* list_functions raises: nothing catches it and the run ends.
ListFails ==
    /\ pc = "list"
    /\ pageIdx <= NumPages(Region)
    /\ Exit("crashed")
    /\ UNCHANGED <<variant, DRY_RUN, remote, provisioned, scans, last, deployed, probe,
                   probed, pubVars>>

\* The paginator is exhausted: process_region returns, main() goes on.
EndRegion ==
    /\ pc = "list"
    /\ pageIdx > NumPages(Region)
    /\ IF regionIdx < Len(Regions(variant))
       THEN /\ regionIdx' = regionIdx + 1
            /\ pageIdx' = 1
            /\ pc' = "list"
            /\ UNCHANGED <<page, funcIdx>>
       ELSE Exit("idle")
    /\ UNCHANGED <<variant, DRY_RUN, remote, provisioned, scans, last, deployed, probe,
                   probed, pubVars>>

\* if is_protected(func): continue
SkipProtected ==
    /\ InLoop
    /\ Decision(Current, [safe |-> FALSE]) = "continue"
    /\ last' = Iteration(Current, "protected", <<>>, <<>>)
    /\ Advance
    /\ UNCHANGED <<variant, DRY_RUN, remote, provisioned, scans, regionIdx, page, deployed,
                   probe, probed, pubVars>>

\* The verdict is unsafe: the skip is logged.
SkipUnsafe ==
    /\ InLoop
    /\ \E verdict \in Verdicts(variant, Current, provisioned[Current.FunctionName]) :
              /\ Decision(Current, verdict) = "skip"
              /\ last' = Iteration(Current, "skipped", Some(verdict),
                                   AliasLog(variant, Current.FunctionName))
    /\ Advance
    /\ UNCHANGED <<variant, DRY_RUN, remote, provisioned, scans, regionIdx, page, deployed,
                   probe, probed, pubVars>>

\* deploy_defender of defend4.py returns at its own layer limit.
DeployLayerSkip ==
    /\ InLoop
    /\ \E verdict \in Verdicts(variant, Current, provisioned[Current.FunctionName]) :
              /\ Decision(Current, verdict) = "deploy"
              /\ DeploySkipsLayers(variant, Current)
              /\ last' = Iteration(Current, "layerskip", Some(verdict),
                                   AliasLog(variant, Current.FunctionName))
              /\ deployed' = Append(deployed, Invocation(Current, verdict, "layerskip", <<>>))
    /\ Advance
    /\ UNCHANGED <<variant, DRY_RUN, remote, provisioned, scans, regionIdx, page, probe,
                   probed, pubVars>>

\* deploy_defender in audit-only mode: the change is logged, nothing is sent.
DeployDryRun ==
    /\ InLoop
    /\ AuditOnly(DRY_RUN)
    /\ \E verdict \in Verdicts(variant, Current, provisioned[Current.FunctionName]) :
          LET request == UpdateRequest(Current, LAYER_ARNS(variant)[Region])
          IN  /\ Decision(Current, verdict) = "deploy"
              /\ ~DeploySkipsLayers(variant, Current)
              /\ ~DryRunLogRaises(variant, Current)
              /\ last' = Iteration(Current, "dryrun", Some(verdict),
                                   AliasLog(variant, Current.FunctionName))
              /\ deployed' = Append(deployed, Invocation(Current, verdict, "dryrun", <<request>>))
    /\ Advance
    /\ UNCHANGED <<variant, DRY_RUN, remote, provisioned, scans, regionIdx, page, probe,
                   probed, pubVars>>

\* deploy_defender: update_function_configuration succeeds.
DeployUpdate ==
    /\ InLoop
    /\ ~AuditOnly(DRY_RUN)
    /\ \E verdict \in Verdicts(variant, Current, provisioned[Current.FunctionName]) :
          LET request == UpdateRequest(Current, LAYER_ARNS(variant)[Region])
              name    == Current.FunctionName
          IN  /\ Decision(Current, verdict) = "deploy"
              /\ ~DeploySkipsLayers(variant, Current)
              /\ remote' = [remote EXCEPT ![name] = Updated(remote[name], request)]
              /\ last' = Iteration(Current, "updated", Some(verdict),
                                   AliasLog(variant, Current.FunctionName))
              /\ deployed' = Append(deployed, Invocation(Current, verdict, "updated", <<request>>))
    /\ Advance
    /\ UNCHANGED <<variant, DRY_RUN, provisioned, scans, regionIdx, page, probe, probed, pubVars>>

\* deploy_defender: update_function_configuration raises ClientError, which is
\* logged; the function is left as it was and the loop goes on.
DeployUpdateFails ==
    /\ InLoop
    /\ ~AuditOnly(DRY_RUN)
    /\ \E verdict \in Verdicts(variant, Current, provisioned[Current.FunctionName]) :
          LET request == UpdateRequest(Current, LAYER_ARNS(variant)[Region])
          IN  /\ Decision(Current, verdict) = "deploy"
              /\ ~DeploySkipsLayers(variant, Current)
              /\ last' = Iteration(Current, "ClientError", Some(verdict),
                                   AliasLog(variant, Current.FunctionName))
              /\ deployed' = Append(deployed,
                                    Invocation(Current, verdict, "ClientError", <<request>>))
    /\ Advance
    /\ UNCHANGED <<variant, DRY_RUN, remote, provisioned, scans, regionIdx, page, probe,
                   probed, pubVars>>

\* deploy_defender raises: the dry-run log line hits a missing key (test.py),
\* or the update raises something other than ClientError.  Nothing catches it.
DeployRaises ==
    /\ InLoop
    /\ \E verdict \in Verdicts(variant, Current, provisioned[Current.FunctionName]) :
          LET request == UpdateRequest(Current, LAYER_ARNS(variant)[Region])
          IN  /\ Decision(Current, verdict) = "deploy"
              /\ ~DeploySkipsLayers(variant, Current)
              /\ AuditOnly(DRY_RUN) => DryRunLogRaises(variant, Current)
              /\ last' = Iteration(Current, "raised", Some(verdict),
                                   AliasLog(variant, Current.FunctionName))
              /\ deployed' = Append(deployed, Invocation(Current, verdict, "raised", <<request>>))
    /\ Exit("crashed")
    /\ UNCHANGED <<variant, DRY_RUN, remote, provisioned, scans, probe, probed, pubVars>>

Next ==
    \/ Main
    \/ FetchPage
    \/ ListFails
    \/ EndRegion
    \/ SkipProtected
    \/ SkipUnsafe
    \/ DeployLayerSkip
    \/ DeployDryRun
    \/ DeployUpdate
    \/ DeployUpdateFails
    \/ DeployRaises

Spec == Init /\ [][Next]_vars

(***************************************************************************)
(* The assessors on their own: an input is a configuration, the function's *)
(* provisioned-concurrency configurations and the answers of the remote    *)
(* reads; Probe applies the three assessors to it.                         *)
(***************************************************************************)
ProbeInputs ==
    {[config |-> c, resp |-> r] :
        c \in ProbeConfigs("fa"), r \in Responses(<<>>) \cup Responses(<<"pc-1">>)}

InitProbe ==
    /\ variant = "test"
    /\ DRY_RUN = TRUE
    /\ remote = ("fa" :> MkConfig("fa", BaseOptions))
    /\ provisioned = ("fa" :> <<>>)
    /\ pc = "probe"
    /\ scans = 0
    /\ regionIdx = 1
    /\ pageIdx = 1
    /\ page = <<>>
    /\ funcIdx = 1
    /\ last = <<>>
    /\ deployed = <<>>
    /\ probe \in {<<i>> : i \in ProbeInputs}
    /\ probed = <<>>
    /\ NoPublisher

Probe ==
    /\ pc = "probe"
    /\ probed = <<>>
    /\ probed' = <<[test    |-> assess_risk(probe[1].config),
                    defend3 |-> assess_risk_deep(probe[1].config, probe[1].resp),
                    defend4 |-> assess_risk_deep_dive(probe[1].config, probe[1].resp)]>>
    /\ UNCHANGED <<scanVars, probe, pubVars>>

NextProbe == Probe

SpecProbe == InitProbe /\ [][NextProbe]_vars

(***************************************************************************)
(* The assessors on the shapes the remote reads can answer with: the       *)
(* configurations of a scan, every shape of the metric answers.            *)
(***************************************************************************)
ReadInputs ==
    {[config |-> c, resp |-> r] :
        c \in ScanConfigs("fa"), r \in ReadShapes(<<>>) \cup ReadShapes(<<"pc-1">>)}

InitReads ==
    /\ variant = "test"
    /\ DRY_RUN = TRUE
    /\ remote = ("fa" :> MkConfig("fa", BaseOptions))
    /\ provisioned = ("fa" :> <<>>)
    /\ pc = "probe"
    /\ scans = 0
    /\ regionIdx = 1
    /\ pageIdx = 1
    /\ page = <<>>
    /\ funcIdx = 1
    /\ last = <<>>
    /\ deployed = <<>>
    /\ probe \in {<<i>> : i \in ReadInputs}
    /\ probed = <<>>
    /\ NoPublisher

SpecReads == InitReads /\ [][NextProbe]_vars

(***************************************************************************)
(* One iteration of the loop of process_region as a function of what it    *)
(* reads, run on two inputs side by side.                                  *)
(***************************************************************************)
\* The loop body with a function skipped when its alias audit warns
LoopBodyAliasGated(v, dry, function_config, resp, aliasResponse) ==
    LET verdict  == Assess(v, function_config, resp)
        aliasLog == IF v = "defend3" THEN check_aliases_and_versions(aliasResponse) ELSE <<>>
        warned   == \E k \in 1..Len(aliasLog) : aliasLog[k].kind = "ALIAS RISK"
        branch   == IF warned THEN "skip" ELSE Decision(function_config, verdict)
        audited  == v = "defend3" /\ branch # "continue"
        skips    == DeploySkipsLayers(v, function_config)
        request  == UpdateRequest(function_config, LAYER_ARNS(v)["us-east-1"])
    IN  [verdict    |-> IF branch = "continue" THEN <<>> ELSE Some(verdict),
         aliasLog   |-> IF audited THEN aliasLog ELSE <<>>,
         auditCalls |-> IF audited THEN AuditCalls(aliasResponse) ELSE <<>>,
         branch     |-> branch,
         mutator    |-> IF branch # "deploy" THEN "none"
                        ELSE IF skips THEN "layerskip"
                        ELSE IF AuditOnly(dry) THEN "dryrun"
                        ELSE "update",
         request    |-> IF branch = "deploy" /\ ~skips /\ ~AuditOnly(dry)
                        THEN <<request>> ELSE <<>>]

\* What the loop body does for a listed function in us-east-1: the verdict
\* (none for a protected function), the alias audit, the branch taken, what
\* deploy_defender does and the update it sends.
LoopBody(v, dry, function_config, resp, aliasResponse) ==
    LET verdict == Assess(v, function_config, resp)
        branch  == Decision(function_config, verdict)
        audited == v = "defend3" /\ branch # "continue"
        skips   == DeploySkipsLayers(v, function_config)
        request == UpdateRequest(function_config, LAYER_ARNS(v)["us-east-1"])
    IN  [verdict    |-> IF branch = "continue" THEN <<>> ELSE Some(verdict),
         aliasLog   |-> IF audited THEN check_aliases_and_versions(aliasResponse) ELSE <<>>,
         auditCalls |-> IF audited THEN AuditCalls(aliasResponse) ELSE <<>>,
         branch     |-> branch,
         mutator    |-> IF branch # "deploy" THEN "none"
                        ELSE IF skips THEN "layerskip"
                        ELSE IF AuditOnly(dry) THEN "dryrun"
                        ELSE "update",
         request    |-> IF branch = "deploy" /\ ~skips /\ ~AuditOnly(dry)
                        THEN <<request>> ELSE <<>>]

\* function_config with the VPC attachment added, or removed.
VpcToggled(function_config) ==
    IF "VpcConfig" \in DOMAIN function_config
    THEN [k \in DOMAIN function_config \ {"VpcConfig"} |-> function_config[k]]
    ELSE function_config @@ ("VpcConfig" :> VpcAttached)

AliasListings == {AliasesOf(n) : n \in FunctionNames}

\* Two functions that differ at most in VPC attachment and in what the alias
\* listing and the aliased versions return, with the same answers otherwise.
PairInputs ==
    UNION {{[left  |-> [config |-> c, aliases |-> a],
             right |-> [config |-> d, aliases |-> b],
             resp  |-> r] :
                d \in {c, VpcToggled(c)},
                a \in AliasListings, b \in AliasListings,
                r \in ScanResponses(<<>>)} : c \in ScanConfigs("fa")}

InitPair ==
    /\ variant \in {"defend3", "defend4"}
    /\ DRY_RUN \in BOOLEAN
    /\ remote = ("fa" :> MkConfig("fa", BaseOptions))
    /\ provisioned = ("fa" :> <<>>)
    /\ pc = "pair"
    /\ scans = 0
    /\ regionIdx = 1
    /\ pageIdx = 1
    /\ page = <<>>
    /\ funcIdx = 1
    /\ last = <<>>
    /\ deployed = <<>>
    /\ probe \in {<<i>> : i \in PairInputs}
    /\ probed = <<>>
    /\ NoPublisher

\* The loop body runs on the two functions.
ScanPair ==
    /\ pc = "pair"
    /\ probed = <<>>
    /\ probed' = <<[left  |-> LoopBody(variant, DRY_RUN, probe[1].left.config, probe[1].resp,
                                       probe[1].left.aliases),
                    right |-> LoopBody(variant, DRY_RUN, probe[1].right.config, probe[1].resp,
                                       probe[1].right.aliases)]>>
    /\ UNCHANGED <<scanVars, probe, pubVars>>

NextPair == ScanPair

SpecPair == InitPair /\ [][NextPair]_vars

(***************************************************************************)
(* Layer Publisher (publish.py, publish1.py): main() authenticates to the  *)
(* console, downloads the bundle, extracts the layer archive from it and   *)
(* publishes it region by region.  An archive entry name is the sequence   *)
(* of its parts, so that "'twistlock_defender_layer.zip' in filename" is a *)
(* search of the name.                                                     *)
(***************************************************************************)
Scripts == {"publish", "publish1"}

LayerZip == "twistlock_defender_layer.zip"

RegionPool == <<"us-east-1", "us-west-2", "eu-central-1", "ap-southeast-1", "eu-west-1">>

\* The region lists publish_to_aws is handed.
RegionLists == {SubSeq(RegionPool, 1, n) : n \in 0..MaxRegions}

\* What the console answers to the bundle request.
Bundles ==
    {[status |-> "error", zip |-> FALSE, namelist |-> <<>>],
     [status |-> "ok", zip |-> FALSE, namelist |-> <<>>],
     [status |-> "ok", zip |-> TRUE, namelist |-> <<>>],
     [status |-> "ok", zip |-> TRUE, namelist |-> << <<"README.md">> >>],
     [status |-> "ok", zip |-> TRUE, namelist |-> << <<LayerZip>> >>],
     [status |-> "ok", zip |-> TRUE,
      namelist |-> << <<"README.md">>, <<"aws", "/", LayerZip>>, <<LayerZip>> >>],
     [status |-> "ok", zip |-> TRUE,
      namelist |-> << <<"README.md">>, <<LayerZip, ".sha256">> >>]}

\* The archive entry taken whatever its name
find_layer_any(namelist) == IF namelist = <<>> THEN 0 ELSE 1

\* The loop over bundle.namelist(): the position of the first entry whose
\* name contains the layer archive's name, 0 when there is none.
find_layer(namelist) ==
    LET hits == {i \in 1..Len(namelist) : Contains(namelist[i], LayerZip)}
    IN  IF hits = {} THEN 0 ELSE CHOOSE i \in hits : \A j \in hits : i <= j

\* download_defender_layer returns the bytes of an entry; otherwise it exits.
Downloadable(b) == b.status = "ok" /\ b.zip /\ find_layer(b.namelist) # 0

InitPublish ==
    /\ variant = "test"
    /\ DRY_RUN = TRUE
    /\ remote = ("fa" :> MkConfig("fa", BaseOptions))
    /\ provisioned = ("fa" :> <<>>)
    /\ pc = "publisher"
    /\ scans = 0
    /\ regionIdx = 1
    /\ pageIdx = 1
    /\ page = <<>>
    /\ funcIdx = 1
    /\ last = <<>>
    /\ deployed = <<>>
    /\ probe = <<>>
    /\ probed = <<>>
    /\ script \in Scripts
    /\ credentials \in BOOLEAN
    /\ bundle \in Bundles
    /\ regions \in RegionLists
    /\ stage = "start"
    /\ token = <<>>
    /\ layer_content = <<>>
    /\ regionAt = 1
    /\ attempts = <<>>

\* main() up to the request for a token: without credentials publish.py
\* returns and publish1.py exits in get_auth_token.
CheckCredentials ==
    /\ pc = "publisher"
    /\ stage = "start"
    /\ stage' = IF credentials THEN "auth"
                ELSE IF script = "publish" THEN "done" ELSE "exit"
    /\ UNCHANGED <<scanVars, probe, probed, script, credentials, bundle, regions, token,
                   layer_content, regionAt, attempts>>

\* get_auth_token: the console returns a token.
Authenticate ==
    /\ pc = "publisher"
    /\ stage = "auth"
    /\ token' = <<"token">>
    /\ stage' = "download"
    /\ UNCHANGED <<scanVars, probe, probed, script, credentials, bundle, regions,
                   layer_content, regionAt, attempts>>

\* get_auth_token: the request fails, or the answer has no token: exit(1).
AuthenticateFails ==
    /\ pc = "publisher"
    /\ stage = "auth"
    /\ stage' = "exit"
    /\ UNCHANGED <<scanVars, probe, probed, script, credentials, bundle, regions, token,
                   layer_content, regionAt, attempts>>

\* download_defender_layer returns the bytes of the first matching entry.
Download ==
    /\ pc = "publisher"
    /\ stage = "download"
    /\ Downloadable(bundle)
    /\ layer_content' = <<bundle.namelist[find_layer(bundle.namelist)]>>
    /\ stage' = "publish"
    /\ regionAt' = 1
    /\ UNCHANGED <<scanVars, probe, probed, script, credentials, bundle, regions, token,
                   attempts>>

\* download_defender_layer: the request fails, the answer is no archive, or
\* no entry matches: exit(1).
DownloadFails ==
    /\ pc = "publisher"
    /\ stage = "download"
    /\ ~Downloadable(bundle)
    /\ stage' = "exit"
    /\ UNCHANGED <<scanVars, probe, probed, script, credentials, bundle, regions, token,
                   layer_content, regionAt, attempts>>

\* publish_to_aws: publish_layer_version succeeds in the region; publish1.py
\* then returns the ARN from inside the loop.
Publish ==
    /\ pc = "publisher"
    /\ stage = "publish"
    /\ regionAt <= Len(regions)
    /\ attempts' = Append(attempts, [region |-> regions[regionAt], ok |-> TRUE,
                                     content |-> layer_content[1]])
    /\ IF script = "publish1"
       THEN stage' = "done" /\ regionAt' = regionAt
       ELSE stage' = stage /\ regionAt' = regionAt + 1
    /\ UNCHANGED <<scanVars, probe, probed, script, credentials, bundle, regions, token,
                   layer_content>>

\* publish_to_aws: publish_layer_version raises; the failure is printed and
\* the loop goes on.
PublishFails ==
    /\ pc = "publisher"
    /\ stage = "publish"
    /\ regionAt <= Len(regions)
    /\ attempts' = Append(attempts, [region |-> regions[regionAt], ok |-> FALSE,
                                     content |-> layer_content[1]])
    /\ regionAt' = regionAt + 1
    /\ UNCHANGED <<scanVars, probe, probed, script, credentials, bundle, regions, stage, token,
                   layer_content>>

\* publish_to_aws: the loop is over.
PublishReturns ==
    /\ pc = "publisher"
    /\ stage = "publish"
    /\ regionAt > Len(regions)
    /\ stage' = "done"
    /\ UNCHANGED <<scanVars, probe, probed, script, credentials, bundle, regions, token,
                   layer_content, regionAt, attempts>>

NextPublish ==
    \/ CheckCredentials
    \/ Authenticate
    \/ AuthenticateFails
    \/ Download
    \/ DownloadFails
    \/ Publish
    \/ PublishFails
    \/ PublishReturns

SpecPublish == InitPublish /\ [][NextPublish]_vars

(***************************************************************************)
(* Properties of the scan.                                                 *)
(***************************************************************************)
\* update_function_configuration was called in the invocation d of deploy_defender
UpdateCalled(d) ==
    \/ d.outcome \in {"updated", "ClientError"}
    \/ d.outcome = "raised" /\ ~DRY_RUN

NameOf(d) == d.config.FunctionName

\* C1: deploy_defender is invoked only for a listed configuration that
\* is_protected rejects and that the assessor found safe; no update call is
\* ever made for a function that is protected or whose verdict is unsafe.
C1_MutatorOnlyUnprotectedAndSafe ==
    \A i \in 1..Len(deployed) :
        /\ ~is_protected(deployed[i].config)
        /\ deployed[i].safe
        /\ ~deployed[i].protected

C1_Witness ==
    /\ \E i \in 1..Len(deployed) : deployed[i].outcome = "updated"
    /\ last # <<>>
    /\ last[1].outcome = "skipped"
    /\ scans = 2

\* C2: with DRY_RUN false, once an update has succeeded for a function its
\* configuration carries TW_POLICY and is_protected holds of it, no later
\* iteration hands the function to deploy_defender again, so a function gets at
\* most one successful update and the defender layer is in its list at most once.
C2_UpdatedOnce ==
    ~DRY_RUN =>
        \A i \in 1..Len(deployed) :
            deployed[i].outcome = "updated" =>
                LET f == NameOf(deployed[i])
                    layers == Get(remote[f], "Layers", <<>>)
                IN  /\ "TW_POLICY" \in DOMAIN EnvVars(remote[f])
                    /\ is_protected(remote[f])
                    /\ \A j \in 1..Len(deployed) : j > i => NameOf(deployed[j]) # f
                    /\ Cardinality({k \in 1..Len(layers) :
                                       Contains(layers[k].Arn, "twistlock")}) = 1

C2_Witness ==
    /\ ~DRY_RUN
    /\ scans = 2
    /\ last # <<>>
    /\ last[1].outcome = "protected"
    /\ \E i \in 1..Len(deployed) :
          deployed[i].outcome = "updated" /\ NameOf(deployed[i]) = last[1].FunctionName

\* C3: in the deep scanners no update call is made for a function that has a
\* provisioned-concurrency configuration.
C3_ProvisionedNeverMutated ==
    variant \in {"defend3", "defend4"} =>
        \A i \in 1..Len(deployed) :
            UpdateCalled(deployed[i]) => provisioned[NameOf(deployed[i])] = <<>>

\* C4: in audit-only mode no step calls update_function_configuration and no
\* step changes a remote configuration.
C4_DryRunChangesNothing ==
    [][DRY_RUN => (/\ remote' = remote
                   /\ \A i \in 1..Len(deployed') : ~UpdateCalled(deployed'[i]))]_vars

C4_Witness ==
    /\ DRY_RUN
    /\ pc = "idle"
    /\ scans = 2
    /\ \E i \in 1..Len(deployed) : deployed[i].outcome = "dryrun"

(***************************************************************************)
(* The predicates of the Risk Assessor as the specification states them,   *)
(* on a configuration c and the answers r of the remote reads.             *)
(***************************************************************************)
Present(c, key) == key \in DOMAIN c

FailsStatic(pred, c) ==
    CASE pred = "package"      -> Present(c, "PackageType") /\ c["PackageType"] = "Image"
      [] pred = "architecture" -> /\ Present(c, "Architectures")
                                  /\ \E i \in 1..Len(c["Architectures"]) :
                                        c["Architectures"][i] = "arm64"
      [] pred = "runtime"      -> ~(Present(c, "Runtime") /\ c["Runtime"] \in SUPPORTED_RUNTIMES)
      [] pred = "memory"       -> (IF Present(c, "MemorySize") THEN c["MemorySize"] ELSE 128) < 256
      [] pred = "timeout"      -> (IF Present(c, "Timeout") THEN c["Timeout"] ELSE 3) > 870
      [] pred = "layers"       -> Present(c, "Layers") /\ Len(c["Layers"]) >= 5
      [] pred = "envsize"      ->
            calculate_env_size(EnvVars(c)) + 9 + StrLen(c["FunctionName"]) + 23 + 25 >= 4096
      \* the snapshot predicate as the specification states it: the mode is enabled
      [] pred = "snapstart-enabled" ->
            Present(c, "SnapStart") /\ c["SnapStart"].ApplyOn # "None"
      \* the snapshot predicate as defend4.py evaluates it: anything but ApplyOn = 'None'
      [] pred = "snapstart"    -> ~(Present(c, "SnapStart") /\ c["SnapStart"].ApplyOn = "None")

IsStatic(pred) ==
    pred \in {"package", "architecture", "runtime", "memory", "timeout", "layers", "envsize",
              "snapstart-enabled", "snapstart"}

Fails(pred, c, r) ==
    CASE IsStatic(pred)       -> FailsStatic(pred, c)
      [] pred = "provisioned" -> r.pc.ok /\ r.pc.ProvisionedConcurrencyConfigs # <<>>
      [] pred = "throttles"   -> /\ r.throttles.ok
                                 /\ r.throttles.Datapoints # <<>>
                                 /\ r.throttles.Datapoints[1] > 0
      [] pred = "concurrency" -> /\ r.conc.ok
                                 /\ r.conc.Reserved # <<>>
                                 /\ r.conc.Reserved[1] # 0
                                 /\ r.used.ok
                                 /\ r.used.Datapoints # <<>>
                                 /\ 100 * r.used.Datapoints[1] > 80 * r.conc.Reserved[1]

KindOf(pred) ==
    CASE pred = "package"      -> "ContainerImage"
      [] pred = "architecture" -> "Arm64"
      [] pred = "runtime"      -> "UnsupportedRuntime"
      [] pred = "memory"       -> "LowMemory"
      [] pred = "timeout"      -> "Timeout"
      [] pred = "layers"       -> "MaxLayers"
      [] pred = "envsize"      -> "EnvVarsFull"
      [] pred = "snapstart-enabled" -> "SnapStart"
      [] pred = "snapstart"    -> "SnapStart"
      [] pred = "provisioned"  -> "ProvisionedConcurrency"
      [] pred = "throttles"    -> "Throttles"
      [] pred = "concurrency"  -> "HighConcurrency"

\* The position in order of the first predicate that fails, 0 when none does.
FirstFail(order, c, r) ==
    LET F == {i \in 1..Len(order) : Fails(order[i], c, r)}
    IN  IF F = {} THEN 0 ELSE CHOOSE i \in F : \A j \in F : i <= j

\* The order of section 4.3 of the specification.
SpecOrder ==
    <<"package", "architecture", "runtime", "memory", "timeout", "layers", "envsize",
      "snapstart-enabled", "provisioned", "throttles", "concurrency">>

\* The predicates each assessor has, in its order.
OrderOf(v) ==
    CASE v = "test"    -> <<"package", "architecture", "runtime", "memory", "timeout", "layers">>
      [] v = "defend3" -> <<"package", "architecture", "runtime", "memory", "timeout", "layers",
                            "provisioned", "throttles", "concurrency">>
      [] v = "defend4" -> <<"package", "architecture", "runtime", "memory", "timeout", "envsize",
                            "snapstart", "throttles">>

EarlierPass(c, preds) == \A q \in preds : ~FailsStatic(q, c)

LastDeployed == deployed[Len(deployed)]

\* C5: the end-to-end case.
EndToEndConfig(c) ==
    /\ Get(c, "Layers", <<>>) = <<>>
    /\ ~FailsStatic("package", c)
    /\ ~FailsStatic("architecture", c)
    /\ ~FailsStatic("runtime", c)
    /\ Present(c, "MemorySize") /\ c["MemorySize"] = 512
    /\ Present(c, "Timeout") /\ c["Timeout"] = 60
    /\ ~Present(c, "VpcConfig")
    /\ ~Present(c, "SnapStart")
    /\ ~is_protected(c)

\* Every remote read made reported no provisioned concurrency, zero throttles
\* and no reserved concurrency.
QuietReads(calls) ==
    \A i \in 1..Len(calls) :
        /\ calls[i].api = "list_provisioned_concurrency_configs" =>
               calls[i].response.ok /\ calls[i].response.ProvisionedConcurrencyConfigs = <<>>
        /\ calls[i].api = "get_metric_statistics:Throttles" =>
               calls[i].response.ok /\ calls[i].response.Datapoints \in {<<>>, <<0>>}
        /\ calls[i].api = "get_function_concurrency" =>
               calls[i].response.ok /\ calls[i].response.Reserved = <<>>

\* C5: for the end-to-end configuration each deep scanner with DRY_RUN false
\* invokes the Mutator, and the update it sends carries the existing layers
\* followed by the one target layer ARN and the existing variables with exactly
\* TW_POLICY and AWS_LAMBDA_EXEC_WRAPPER set.
C5_EndToEnd ==
    (/\ last # <<>>
     /\ variant \in {"defend3", "defend4"}
     /\ ~DRY_RUN
     /\ EndToEndConfig(last[1].config)
     /\ provisioned[last[1].FunctionName] = <<>>
     /\ last[1].verdict # <<>>
     /\ QuietReads(last[1].verdict[1].calls))
    => LET c   == last[1].config
           old == EnvVars(c)
       IN  /\ last[1].outcome \in {"updated", "ClientError", "raised"}
           /\ LastDeployed.config = c
           /\ LastDeployed.request[1].Layers = <<DefenderArn("us-east-1")>>
           /\ LET new == LastDeployed.request[1].Variables
              IN  /\ DOMAIN new = DOMAIN old \cup {"TW_POLICY", "AWS_LAMBDA_EXEC_WRAPPER"}
                  /\ new["TW_POLICY"] = c["FunctionName"]
                  /\ new["AWS_LAMBDA_EXEC_WRAPPER"] = "/opt/twistlock/wrapper.sh"
                  /\ \A k \in DOMAIN old \ {"TW_POLICY", "AWS_LAMBDA_EXEC_WRAPPER"} :
                        new[k] = old[k]

\* C8 as stated: the risk assessor of every variant returns unsafe for a
\* configuration with 5 or more layers that passes the earlier predicates.
C8_AssessorRejectsFiveLayers ==
    (/\ last # <<>>
     /\ last[1].verdict # <<>>
     /\ LayerCount(last[1].config) >= 5
     /\ EarlierPass(last[1].config, {"package", "architecture", "runtime", "memory", "timeout"}))
    => ~last[1].verdict[1].safe

\* C8, amended: assess_risk and assess_risk_deep return unsafe, with the
\* layer-limit reason, for 5 or more layers when the earlier predicates pass,
\* and 4 layers pass the predicate; assess_risk_deep_dive has no layer
\* predicate, and in defend4.py it is deploy_defender that returns, without an
\* update call, at 5 or more layers.
C8_LayerLimit ==
    (last # <<>> /\ last[1].verdict # <<>>) =>
        LET c == last[1].config
            v == last[1].verdict[1]
            n == Len(Get(c, "Layers", <<>>))
            earlier == EarlierPass(c, {"package", "architecture", "runtime", "memory", "timeout"})
        IN  /\ variant \in {"test", "defend3"} =>
                /\ (n >= 5 /\ earlier) => (~v.safe /\ v.reason.kind = "MaxLayers")
                /\ n <= 4 => v.reason.kind # "MaxLayers"
            /\ variant = "defend4" =>
                /\ v.reason.kind # "MaxLayers"
                /\ n >= 5 => last[1].outcome \in {"skipped", "layerskip"}
                /\ n <= 4 => last[1].outcome # "layerskip"

C8_Witness ==
    /\ variant = "defend4"
    /\ last # <<>>
    /\ last[1].outcome = "layerskip"
    /\ Len(last[1].config["Layers"]) = 5

\* C9: in defend4.py, with S the size of the existing variables and A the
\* size of the two added ones, the verdict is unsafe when S + A >= 4096, the
\* size predicate does not fail when S + A <= 4095, and every update sent
\* carries variables of total size below 4096.
C9_EnvCeiling ==
    variant = "defend4" =>
        /\ (last # <<>> /\ last[1].verdict # <<>>) =>
              LET c == last[1].config
                  v == last[1].verdict[1]
                  S == calculate_env_size(EnvVars(c))
                  A == 9 + StrLen(c["FunctionName"]) + 23 + 25
              IN  /\ S + A >= 4096 => ~v.safe
                  /\ S + A <= 4095 => v.reason.kind # "EnvVarsFull"
        /\ \A i \in 1..Len(deployed) :
              UpdateCalled(deployed[i]) =>
                  calculate_env_size(deployed[i].request[1].Variables) < 4096

C9_Witness ==
    /\ variant = "defend4"
    /\ \E i \in 1..Len(deployed) :
          /\ deployed[i].outcome = "updated"
          /\ "AWS_LAMBDA_EXEC_WRAPPER" \in DOMAIN EnvVars(deployed[i].config)
          /\ calculate_env_size(EnvVars(deployed[i].config))
                 + 9 + StrLen(NameOf(deployed[i])) + 23 + 25 = 4095

(***************************************************************************)
(* Properties of the assessors (SpecProbe).                                *)
(***************************************************************************)
Input == probe[1]

Deep == {"defend3", "defend4"}

\* The predicates a verdict evaluated; the VPC step is an advisory, not a predicate.
PredicatesOf(verdict) == SelectSeq(verdict.evaluated, LAMBDA x : x # "vpc")

MetricOrProvisioned ==
    {"list_provisioned_concurrency_configs", "get_metric_statistics:Throttles",
     "get_metric_statistics:ConcurrentExecutions"}

MemoryIs(c, n) == Present(c, "MemorySize") /\ c["MemorySize"] = n

\* C7 as stated: every configuration with memory 255 is unsafe with the
\* memory-floor reason.
C7_Memory255AlwaysMemoryReason ==
    probed # <<>> =>
        \A v \in Variants :
            MemoryIs(Input.config, 255) =>
                (~probed[1][v].safe /\ probed[1][v].reason.kind = "LowMemory")

\* C7, amended: a configuration with memory 255 is unsafe, with the
\* memory-floor reason when the package, architecture and runtime predicates
\* pass; the memory predicate fails exactly when MemorySize (128 when missing)
\* is below 256; with memory 256 and every other predicate passing the verdict
\* is safe.
C7_MemoryFloor ==
    probed # <<>> =>
        \A v \in Variants :
            LET c       == Input.config
                verdict == probed[1][v]
                earlier == EarlierPass(c, {"package", "architecture", "runtime"})
                memory  == IF Present(c, "MemorySize") THEN c["MemorySize"] ELSE 128
            IN  /\ MemoryIs(c, 255) => ~verdict.safe
                /\ (MemoryIs(c, 255) /\ earlier) => verdict.reason.kind = "LowMemory"
                /\ verdict.reason.kind = "LowMemory" <=> (earlier /\ memory < 256)
                /\ (MemoryIs(c, 256) /\ FirstFail(OrderOf(v), c, Input.resp) = 0)
                       => verdict.safe

C7_Witness ==
    /\ probed # <<>>
    /\ MemoryIs(Input.config, 255)
    /\ EarlierPass(Input.config, {"package", "architecture", "runtime"})
    /\ \A v \in Variants : probed[1][v].reason.kind = "LowMemory"

\* C10: the snapshot predicate of assess_risk_deep_dive fails only when the
\* mode is enabled: a configuration without a SnapStart field, or with ApplyOn
\* 'None', passes it, and is safe when every other predicate passes.
C10_SnapStartOptional ==
    (/\ probed # <<>>
     /\ ~FailsStatic("snapstart-enabled", Input.config))
    => /\ probed[1]["defend4"].reason.kind # "SnapStart"
       /\ (\A q \in {"package", "architecture", "runtime", "memory", "timeout", "envsize",
                     "throttles"} : ~Fails(q, Input.config, Input.resp))
              => probed[1]["defend4"].safe

(***************************************************************************)
(* Properties of the remote reads (SpecReads).                             *)
(***************************************************************************)
\* Every predicate the assessor of v evaluates before pred passes.
PassBefore(v, pred, c, r) ==
    LET order == OrderOf(v)
        at    == CHOOSE i \in 1..Len(order) : order[i] = pred
    IN  \A i \in 1..(at - 1) : ~Fails(order[i], c, r)

\* The throttle sum as the assessors fetch it.
FetchedThrottles == get_metric_sum(Input.resp.throttles)

RECURSIVE SumSeq(_)
SumSeq(q) == IF q = <<>> THEN 0 ELSE Head(q) + SumSeq(Tail(q))

RECURSIVE MaxSeq(_)
MaxSeq(q) ==
    IF q = <<>> THEN 0
    ELSE LET m == MaxSeq(Tail(q)) IN IF Head(q) > m THEN Head(q) ELSE m

\* C12: when a reserved limit R is set, the verdict of assess_risk_deep is
\* unsafe exactly when the maximum concurrency U observed over the trailing
\* hour has 100 * U > 80 * R; when no limit is set or the lookup fails, the
\* predicate passes.
C12_ConcurrencySaturation ==
    (/\ probed # <<>>
     /\ PassBefore("defend3", "concurrency", Input.config, Input.resp))
    => LET verdict == probed[1]["defend3"]
           conc    == Input.resp.conc
           U       == MaxSeq(Input.resp.used.Datapoints)
       IN  /\ (conc.ok /\ conc.Reserved # <<>> /\ Input.resp.used.ok) =>
                  /\ ~verdict.safe <=> 100 * U > 80 * conc.Reserved[1]
                  /\ ~verdict.safe => verdict.reason.args = <<U, conc.Reserved[1]>>
           /\ (~conc.ok \/ conc.Reserved = <<>>) => verdict.safe

\* C17: the timeout predicate fails exactly when Timeout (3 when missing) is
\* above 870: 871 is unsafe, 869 and 870 pass the predicate, and the three
\* assessors agree.
C17_TimeoutBoundary ==
    probed # <<>> =>
        LET c       == Input.config
            timeout == IF Present(c, "Timeout") THEN c["Timeout"] ELSE 3
            earlier == EarlierPass(c, {"package", "architecture", "runtime", "memory"})
        IN  \A v \in Variants :
                LET verdict == probed[1][v]
                IN  /\ timeout = 871 => ~verdict.safe
                    /\ verdict.reason.kind = "Timeout" <=> (earlier /\ timeout > 870)
                    /\ timeout \in {3, 869, 870} => verdict.reason.kind # "Timeout"
                    /\ \A w \in Variants :
                           (verdict.reason.kind = "Timeout")
                               <=> (probed[1][w].reason.kind = "Timeout")

C17_Witness ==
    /\ probed # <<>>
    /\ Present(Input.config, "Timeout")
    /\ Input.config["Timeout"] = 871
    /\ \A v \in Variants : probed[1][v].reason.kind = "Timeout"

\* C19: a function throttled in the trailing 24 hours, the metric query
\* having succeeded, is marked unsafe by both deep assessors whatever the shape
\* of the response: the gate uses the sum over all the datapoints returned.
C19_ThrottleSumOverDatapoints ==
    (/\ probed # <<>>
     /\ Input.resp.throttles.ok
     /\ SumSeq(Input.resp.throttles.Datapoints) > 0)
    => \A v \in Deep : ~probed[1][v].safe

(***************************************************************************)
(* Failures during a scan, and the alias audit (Spec).                     *)
(***************************************************************************)
\* C13: with DRY_RUN false, no failure met while one function is processed
\* ends the scan: the loop goes on to the next function, and a function whose
\* update failed keeps its remote configuration.
C13_ScanNeverAborted ==
    [][(pc = "page" /\ ~DRY_RUN) =>
           /\ pc' # "crashed"
           /\ (last' # <<>> /\ last'[1].outcome \in {"ClientError", "raised"}) =>
                  remote' = remote]_vars

\* C18: in one call of check_aliases_and_versions, every alias whose version
\* is not $LATEST and is unprotected gets an ALIAS RISK advisory naming it,
\* aliases after a failed version lookup included, and no advisory is logged
\* for an alias that targets $LATEST.
C18_EveryAliasAudited ==
    (/\ last # <<>>
     /\ variant = "defend3"
     /\ last[1].outcome # "protected"
     /\ AliasesOf(last[1].FunctionName).ok)
    => LET aliases  == AliasesOf(last[1].FunctionName).Aliases
           aliasLog == last[1].aliasLog
       IN  /\ \A i \in 1..Len(aliases) :
                  (/\ aliases[i].FunctionVersion # "$LATEST"
                   /\ aliases[i].lookup.ok
                   /\ ~is_protected(aliases[i].lookup.config))
                  => \E k \in 1..Len(aliasLog) :
                         /\ aliasLog[k].kind = "ALIAS RISK"
                         /\ aliasLog[k].alias = aliases[i].Name
           /\ \A k \in 1..Len(aliasLog) :
                  aliasLog[k].kind = "ALIAS RISK" =>
                      \E i \in 1..Len(aliases) :
                          /\ aliases[i].Name = aliasLog[k].alias
                          /\ aliases[i].FunctionVersion # "$LATEST"

(***************************************************************************)
(* Advisory checks (SpecPair).                                             *)
(***************************************************************************)
\* The pair (safe, reason) of the verdict of a run of the loop body.
Returned(run) ==
    IF run.verdict = <<>> THEN <<>>
    ELSE <<[safe |-> run.verdict[1].safe, reason |-> run.verdict[1].reason]>>

\* C16: two functions that differ only in VPC attachment or in what the
\* alias listing and the aliased versions return get the same verdict and
\* reason and the same Mutator decision and update, and the alias audit never
\* calls update_function_configuration.
C16_AdvisoriesVerdictNeutral ==
    (pc = "pair" /\ probed # <<>>) =>
        LET L == probed[1].left
            R == probed[1].right
        IN  /\ Returned(L) = Returned(R)
            /\ L.branch = R.branch
            /\ L.mutator = R.mutator
            /\ L.request = R.request
            /\ \A run \in {L, R} : \A k \in 1..Len(run.auditCalls) :
                   run.auditCalls[k].api \in {"list_aliases", "get_function_configuration"}

C16_Witness ==
    /\ pc = "pair"
    /\ probed # <<>>
    /\ probed[1].left.mutator = "update"
    /\ \/ /\ variant = "defend4"
          /\ probed[1].left.verdict[1].advisories # probed[1].right.verdict[1].advisories
       \/ /\ variant = "defend3"
          /\ probed[1].left.aliasLog # probed[1].right.aliasLog

(***************************************************************************)
(* Properties of the Layer Publisher (SpecPublish).                        *)
(***************************************************************************)
\* The regions in which publish_layer_version was called, in call order.
Attempted == [i \in 1..Len(attempts) |-> attempts[i].region]

\* C14: in both publisher scripts publish_to_aws calls publish_layer_version
\* once in every region of its list, in order, whatever the outcome in the
\* other regions.
C14_EveryRegionAttempted ==
    (pc = "publisher" /\ stage = "done" /\ layer_content # <<>>) => Attempted = regions

\* C15: publish_layer_version is called only once a token was returned,
\* the download succeeded and an entry whose name contains
\* twistlock_defender_layer.zip was extracted; without credentials, or when
\* authentication or the download fails or no entry matches, the run ends
\* without a publish call in any region.
C15_PublishOnlyAfterDownload ==
    pc = "publisher" =>
        /\ attempts # <<>> =>
               /\ credentials
               /\ token # <<>>
               /\ bundle.status = "ok" /\ bundle.zip
               /\ layer_content # <<>>
               /\ Contains(layer_content[1], LayerZip)
               /\ \E i \in 1..Len(bundle.namelist) : bundle.namelist[i] = layer_content[1]
               /\ \A i \in 1..Len(attempts) : attempts[i].content = layer_content[1]
        /\ stage = "publish" => (token # <<>> /\ layer_content # <<>>)
        /\ stage = "exit" => attempts = <<>>
        /\ (\/ ~credentials
            \/ bundle.status # "ok"
            \/ ~bundle.zip
            \/ \A i \in 1..Len(bundle.namelist) : ~Contains(bundle.namelist[i], LayerZip))
           => (attempts = <<>> /\ stage # "publish")

C15_Witness ==
    /\ pc = "publisher"
    /\ stage = "done"
    /\ Len(attempts) = 2
    /\ find_layer(bundle.namelist) = 2

====
